---- MODULE Spec2Model ----
(***************************************************************************)
(* Intake-to-match pipeline of pathways-agent: provider catalog cache,     *)
(* transcription adapter, structured extraction and specialty              *)
(* recommendation, modelled from the Python sources.                       *)
(*                                                                         *)
(* Python's None / "a value" is modelled as a sequence of length 0 / 1     *)
(* (None == <<>>, Some(x) == <<x>>) so that values of different shapes     *)
(* are never compared.                                                     *)
(***************************************************************************)
EXTENDS Integers, Sequences, FiniteSets, TLC

VARIABLES
    \* ---- provider catalog (services/provider_loader.py, main.py) ----
    source,           \* the file system: path -> content of providers.json
    _provider_cache,  \* module global of provider_loader.py
    loadResult,       \* outcome of the last catalog operation
    firstLoaded,      \* history: value of the first successful get_providers
                      \*          since the last invalidate call (None if none)
    loads,            \* history: successful get_providers since the last
                      \*          invalidate call (capped at MaxLoads)
    invalidated,      \* history: an invalidate call has been made
    \* ---- transcription adapter (services/voice_service.py) ----
    voice,            \* the VoiceService instance, or None before __init__
    audioResult,      \* outcome of the last process_audio_file
    \* ---- structured extraction (services/voice_service.py) ----
    extractResult,    \* input, capability behaviour and outcome of the last
                      \* _extract_structured_info
    \* ---- specialty recommendation (services/specialty_service.py) ----
    service,          \* the SpecialtyService instance, or None before __init__
    recResult,        \* capability behaviour and outcome of the last
                      \* get_specialty_recommendations
    \* ---- provider ranking (services/provider_ranker.py, main.py) ----
    rankResult,       \* arguments and outcome of the last rank_providers
    \* ---- request pipeline (routes/voice.py, routes/specialties.py) ----
    pipeResult,       \* the last request and its response, or None
    \* ---- concurrent get_providers() calls ----
    threads,          \* thread -> its position in get_providers and locals
    produced          \* history: the lists json.load has returned

catalogVars == <<source, _provider_cache, loadResult, firstLoaded, loads, invalidated>>
voiceVars   == <<voice, audioResult>>
extractVars == <<extractResult>>
recVars     == <<service, recResult>>
laterVars   == <<rankResult, pipeResult, threads, produced>>
vars == <<source, _provider_cache, loadResult, firstLoaded, loads, invalidated,
          voice, audioResult, extractResult, service, recResult,
          rankResult, pipeResult, threads, produced>>

None == <<>>
Some(x) == <<x>>

\* s[1..n] of Python's s[:n]
Take(s, n) == SubSeq(s, 1, IF Len(s) < n THEN Len(s) ELSE n)

\* [x for x in s if x in S], order and repetitions kept
RECURSIVE FilterIn(_, _)
FilterIn(s, S) ==
    IF s = <<>> THEN <<>>
    ELSE IF Head(s) \in S THEN <<Head(s)>> \o FilterIn(Tail(s), S)
         ELSE FilterIn(Tail(s), S)

Range(s) == {s[i] : i \in 1..Len(s)}

NoDuplicates(s) == \A i, j \in 1..Len(s) : i # j => s[i] # s[j]

(***************************************************************************)
(* Provider catalog                                                        *)
(***************************************************************************)

\* Bound on the history counter of successful loads.
MaxLoads == 2

\* Provider records of providers.json. A dict is a record over exactly the
\* keys it has; a string that the code looks into (zip code, insurer) is the
\* sequence of its characters or words; a distance is in 1/1000 mile.
Zip10001 == <<"1", "0", "0", "0", "1">>
Provider(name, specialty, zip, insurances) ==
    [name |-> name, specialty |-> specialty, zip_code |-> zip,
     insurances |-> insurances, distance |-> 2500,
     availability_date |-> "2024-07-01"]
ProvOrtho  == Provider("Dr. Bone",  "Orthopedics", Zip10001, <<<<"Aetna">>, <<"Cigna">>>>)
ProvCardio == Provider("Dr. Heart", "Cardiology", <<"1", "0", "0", "1", "1">>, <<<<"Aetna">>>>)
ProvSports == Provider("Dr. Run",   "Sports Medicine", <<"2", "0", "0", "0", "1">>, <<<<"Cigna">>>>)
ProvNeuro  == Provider("Dr. Nerve", "Neurology", Zip10001, <<<<"Cigna">>>>)
ProvPT     == Provider("Dr. Move",  "Physical Therapy", Zip10001, <<<<"Aetna">>, <<"Cigna">>>>)
ProvPrimary  == Provider("Dr. First", "Primary Care", <<"2", "0", "0", "0", "1">>, <<<<"Aetna">>>>)
ProvInternal == Provider("Dr. Inner", "Internal Medicine", Zip10001, << >>)
ProvOrtho2   == Provider("Dr. Joint", "Orthopedics", Zip10001, <<<<"Aetna">>, <<"Cigna">>>>)

\* Well-formed contents of providers.json.
CatalogA == <<ProvOrtho, ProvCardio>>
CatalogB == <<ProvCardio>>
Catalogs == {CatalogA, CatalogB}

\* Content of one location: no file, a file that is not JSON, a JSON file.
Absent       == [kind |-> "absent",    data |-> <<>>]
Malformed    == [kind |-> "malformed", data |-> <<>>]
JsonFile(c)  == [kind |-> "json",      data |-> c]
Contents     == {Absent, Malformed} \cup {JsonFile(c) : c \in Catalogs}

\* The locations tried, in the order each function tries them.
possible_paths ==
    << "../shared-data/providers.json",
       "./shared-data/providers.json",
       "/Users/thiyagarajankamalakannan/Projects/pathways-ai/shared-data/providers.json",
       "../../shared-data/providers.json" >>

main_possible_paths ==
    << "../shared-data/providers.json",
       "/Users/thiyagarajankamalakannan/Projects/CursorPathwayAgent/pathways-ai/shared-data/providers.json",
       "./shared-data/providers.json",
       "../../shared-data/providers.json" >>

Paths == Range(possible_paths) \cup Range(main_possible_paths)

\* Outcomes of a catalog operation.
Ok(op, c)     == [op |-> op, kind |-> "ok", value |-> Some(c)]
Raised(op, e) == [op |-> op, kind |-> e,    value |-> None]
NoResult      == [op |-> "none", kind |-> "none", value |-> None]

\* for path in paths: if os.path.exists(path): the first existing location
Existing(paths, src) == {i \in 1..Len(paths) : src[paths[i]].kind # "absent"}
FirstExisting(paths, src) ==
    CHOOSE i \in Existing(paths, src) : \A j \in Existing(paths, src) : i <= j

\* Mutant: a cache miss that leaves an empty list in the cache when it fails.
ReadSourceCachingFailure(src) ==
    IF Existing(possible_paths, src) = {}
    THEN <<Raised("get_providers", "HTTPException"), Some(<<>>)>>
    ELSE LET f == src[possible_paths[FirstExisting(possible_paths, src)]]
         IN  IF f.kind = "malformed"
             THEN <<Raised("get_providers", "JSONDecodeError"), Some(<<>>)>>
             ELSE <<Ok("get_providers", f.data), Some(f.data)>>

\* What get_providers does on a cache miss: <<outcome, new cache>>.
\* json.load raises json.JSONDecodeError on a file that is not JSON; nothing
\* in get_providers catches it.
ReadSource(src) ==
    IF Existing(possible_paths, src) = {}
    THEN <<Raised("get_providers", "HTTPException"), None>>
    ELSE LET f == src[possible_paths[FirstExisting(possible_paths, src)]]
         IN  IF f.kind = "malformed"
             THEN <<Raised("get_providers", "JSONDecodeError"), None>>
             ELSE <<Ok("get_providers", f.data), Some(f.data)>>

\* Mutant: get_providers without the cache test, reading the source each time.
GetProvidersNoCache(cache, src) == ReadSource(src)

\* get_providers(): <<outcome, new cache>>.
GetProviders(cache, src) ==
    IF cache # None
    THEN <<Ok("get_providers", cache[1]), cache>>
    ELSE ReadSource(src)

\* load_providers() of main.py: every failure, the HTTPException raised for a
\* missing file included, ends in an except clause that raises HTTPException.
LoadProviders(src) ==
    IF Existing(main_possible_paths, src) = {}
    THEN Raised("load_providers", "HTTPException")
    ELSE LET f == src[main_possible_paths[FirstExisting(main_possible_paths, src)]]
         IN  IF f.kind = "malformed"
             THEN Raised("load_providers", "HTTPException")
             ELSE Ok("load_providers", f.data)

CatalogInit ==
    /\ source \in [Paths -> Contents]
    /\ _provider_cache = None
    /\ loadResult = NoResult
    /\ firstLoaded = None
    /\ loads = 0
    /\ invalidated = FALSE

\* The environment rewrites, creates or removes providers.json at one location.
ChangeSource ==
    /\ \E p \in Paths, c \in Contents :
          /\ source[p] # c
          /\ source' = [source EXCEPT ![p] = c]
    /\ UNCHANGED <<_provider_cache, loadResult, firstLoaded, loads, invalidated>>
    /\ UNCHANGED <<voiceVars, extractVars, recVars, laterVars>>

\* The effect of one get_providers() call on the catalog's state.
CallGetProviders ==
    /\ LET r == GetProviders(_provider_cache, source)
       IN  /\ loadResult' = r[1]
           /\ _provider_cache' = r[2]
           /\ IF r[1].kind = "ok"
              THEN /\ firstLoaded' = IF firstLoaded = None THEN r[1].value ELSE firstLoaded
                   /\ loads' = IF loads < MaxLoads THEN loads + 1 ELSE loads
              ELSE UNCHANGED <<firstLoaded, loads>>
    /\ UNCHANGED <<source, invalidated>>

\* A route (match_providers, insurances, voice) calls get_providers().
get_providers ==
    /\ CallGetProviders
    /\ UNCHANGED <<voiceVars, extractVars, recVars, laterVars>>

\* main.py's match_providers loads the catalog with load_providers(), which
\* keeps no cache.
load_providers ==
    /\ loadResult' = LoadProviders(source)
    /\ UNCHANGED <<source, _provider_cache, firstLoaded, loads, invalidated>>
    /\ UNCHANGED <<voiceVars, extractVars, recVars, laterVars>>

\* POST /api/clear-cache and SpecialtyService.reload_data: both import
\* clear_provider_cache from services.provider_loader, which defines only
\* _provider_cache and get_providers, so the import raises ImportError and
\* the cache is left as it is.
clear_cache ==
    /\ loadResult' = Raised("clear_cache", "ImportError")
    /\ firstLoaded' = None
    /\ loads' = 0
    /\ invalidated' = TRUE
    /\ UNCHANGED <<source, _provider_cache>>
    /\ UNCHANGED <<voiceVars, extractVars, recVars, laterVars>>

CatalogNext == ChangeSource \/ get_providers \/ load_providers \/ clear_cache

\* The other components before any of their operations has run.
VoiceIdle   == voice = None /\ audioResult = None
NoLlm       == [kind |-> "none", resp |-> <<>>]
ExtractIdle == extractResult = [text |-> <<>>, llm |-> NoLlm, out |-> None]
NoRecLlm    == [kind |-> "none", raw |-> <<>>]
RecIdle     == service = None /\ recResult = [llm |-> NoRecLlm, out |-> None]
LaterIdle   ==
    /\ rankResult = [providers |-> <<>>, specialties |-> <<>>, target_zip |-> <<>>,
                     target_insurance |-> <<>>, impl |-> "none", out |-> NoResult]
    /\ pipeResult = [route |-> "none", kind |-> "none", text |-> <<>>,
                     specialty_recommendations |-> <<>>, providers |-> <<>>,
                     total_providers_found |-> 0, capability |-> <<>>]
    /\ threads = <<>>
    /\ produced = {}

InitCatalog == CatalogInit /\ VoiceIdle /\ ExtractIdle /\ RecIdle /\ LaterIdle

SpecCatalog ==
    /\ InitCatalog
    /\ [][CatalogNext]_vars

\* The source can be read: a file exists at some location get_providers tries
\* and the first such file is JSON.
Readable(src) == ReadSource(src)[1].kind = "ok"

\* C1: once a get_providers() has succeeded, every later get_providers() made
\* before the next invalidate call succeeds too and returns the provider
\* sequence the first one returned, whatever the source holds by then.
C1_CachedLoadRepeats ==
    (loadResult.op = "get_providers" /\ firstLoaded # None)
        => loadResult = Ok("get_providers", firstLoaded[1])

\* C1 witness: a second get_providers() has returned the first one's sequence
\* although the source no longer yields it.
C1_Witness ==
    /\ loads = 2
    /\ loadResult = Ok("get_providers", firstLoaded[1])
    /\ ReadSource(source)[1] # loadResult

\* C2 (as claimed): the first get_providers() after an invalidate call reads
\* the source again: its outcome is what reading the source yields at that
\* moment, not the sequence cached before.
C2_InvalidateThenLoadRereads ==
    [][(invalidated /\ loads = 0 /\ get_providers)
          => loadResult' = ReadSource(source)[1]]_vars

\* C3 (as claimed): a load that finds no file at any location, or whose first
\* file is not JSON, fails with the catalog service error (HTTPException 500)
\* and with no other kind of error; it returns no provider sequence.
C3_UnreadableSourceIsCatalogUnavailable ==
    [][/\ (get_providers /\ _provider_cache = None /\ ~Readable(source))
             => loadResult'.kind = "HTTPException"
       /\ (load_providers /\ LoadProviders(source).kind # "ok")
             => loadResult'.kind = "HTTPException"]_vars

(***************************************************************************)
(* Structured extraction (VoiceService._extract_structured_info)           *)
(*                                                                         *)
(* A text is a sequence of atoms: one atom per digit, blank or punctuation *)
(* mark, and one atom per word.  A string-valued field is such a sequence, *)
(* the empty string being <<>>.                                            *)
(***************************************************************************)

\* Longest capability response, in tokens.
MaxResp == 4

Digits   == {"0", "1", "2", "3", "4", "5", "6", "7", "8", "9"}
NonWord  == {" ", ","}
IsWord(a) == a \notin NonWord          \* \w: letters and digits

\* Transcriptions handed to the extractor.
TextKnee   == << "My", " ", "knee", " ", "hurts", ",", " ", "zip", " ",
                 "7", "5", "0", "2", "4" >>
TextHeart  == << "I", " ", "have", " ", "Aetna", " ", "and", " ", "chest", " ", "pain" >>
TextMany   == << "1", "2", "3", "4", "5", "6", " ", "tooth", " ", "Heart", " ",
                 "headache", " ", "knee", " ", "rash" >>
TextPlain  == << "no", " ", "symptoms" >>
TextEmpty  == << >>
TextTwoZips == << "9", "0", "2", "1", "0", " ", "or", " ", "7", "5", "0", "2", "4" >>
Texts == {TextKnee, TextHeart, TextMany, TextPlain, TextEmpty, TextTwoZips}

\* str.lower() on one atom.
LowerAtom(a) ==
    CASE a = "My"    -> "my"
      [] a = "I"     -> "i"
      [] a = "Aetna" -> "aetna"
      [] a = "Heart" -> "heart"
      [] OTHER       -> a

Lower(t) == [i \in 1..Len(t) |-> LowerAtom(t[i])]

\* The one-word keywords of the two lexicons that occur inside a word atom
\* (Python's `keyword in text_lower` is a substring test: "ear" is in "heart").
KeywordsIn(a) ==
    CASE a = "knee"     -> {"knee"}
      [] a = "heart"    -> {"heart", "ear"}
      [] a = "tooth"    -> {"tooth"}
      [] a = "rash"     -> {"rash"}
      [] a = "headache" -> {"headache"}
      [] a = "aetna"    -> {"aetna"}
      [] OTHER          -> {}

\* `keyword in text_lower`; a keyword of several words is a sequence of atoms.
Occurs(kw, tl) ==
    \E i \in 1..Len(tl) :
        /\ i + Len(kw) - 1 <= Len(tl)
        /\ IF Len(kw) = 1
           THEN kw[1] \in KeywordsIn(tl[i])
           ELSE SubSeq(tl, i, i + Len(kw) - 1) = kw

\* specialty_keywords, in the dict's insertion order.
specialty_keywords ==
    << [name |-> "Dentist",
        keywords |-> {<<"tooth">>, <<"teeth">>, <<"dental">>, <<"mouth">>, <<"gum">>}],
       [name |-> "Cardiology",
        keywords |-> {<<"chest", " ", "pain">>, <<"heart">>, <<"cardiac">>, <<"palpitation">>}],
       [name |-> "Neurology",
        keywords |-> {<<"headache">>, <<"head", " ", "injury">>, <<"brain">>, <<"seizure">>}],
       [name |-> "Orthopedics",
        keywords |-> {<<"broken">>, <<"fracture">>, <<"bone">>, <<"joint">>, <<"knee">>,
                      <<"shoulder">>}],
       [name |-> "Dermatology",
        keywords |-> {<<"rash">>, <<"skin">>, <<"itch">>, <<"burn">>}],
       [name |-> "ENT",
        keywords |-> {<<"ear">>, <<"nose">>, <<"throat">>, <<"hearing">>, <<"swallowing">>}],
       [name |-> "Ophthalmology",
        keywords |-> {<<"eye">>, <<"vision">>, <<"blind">>, <<"sight">>}],
       [name |-> "Psychiatry",
        keywords |-> {<<"anxiety">>, <<"depression">>, <<"mental">>, <<"mood">>}] >>

\* insurance_keywords, in the dict's insertion order.
insurance_keywords ==
    << [name |-> "Blue Cross",   keywords |-> {<<"blue", " ", "cross">>, <<"bluecross">>}],
       [name |-> "Aetna",        keywords |-> {<<"aetna">>}],
       [name |-> "Cigna",        keywords |-> {<<"cigna">>}],
       [name |-> "UnitedHealth", keywords |-> {<<"unitedhealth">>, <<"united", " ", "health">>}],
       [name |-> "Medicare",     keywords |-> {<<"medicare">>}],
       [name |-> "Humana",       keywords |-> {<<"humana">>}],
       [name |-> "Kaiser",       keywords |-> {<<"kaiser">>, <<"kaiser", " ", "permanente">>}] >>

\* The entries of a lexicon with a keyword in the text, in the lexicon's order.
RECURSIVE Matching(_, _)
Matching(lexicon, tl) ==
    IF lexicon = <<>> THEN <<>>
    ELSE (IF \E kw \in Head(lexicon).keywords : Occurs(kw, tl)
          THEN <<Head(lexicon).name>> ELSE <<>>) \o Matching(Tail(lexicon), tl)

\* re.findall(r'\b\d{5}\b', t): the positions where a run of exactly five
\* digits starts that has no word character right before or after it.
ZipAt(t, i) ==
    /\ i + 4 <= Len(t)
    /\ \A k \in 0..4 : t[i + k] \in Digits
    /\ (i = 1 \/ ~IsWord(t[i - 1]))
    /\ (i + 4 = Len(t) \/ ~IsWord(t[i + 5]))

\* Mutant: the pattern without its word boundaries, \d{5}.
FirstZipUnbounded(t) ==
    LET at == {i \in 1..Len(t) : i + 4 <= Len(t) /\ \A k \in 0..4 : t[i + k] \in Digits}
    IN  IF at = {} THEN <<>>
        ELSE LET i == CHOOSE x \in at : \A y \in at : x <= y
             IN  SubSeq(t, i, i + 4)

FirstZip(t) ==
    LET at == {i \in 1..Len(t) : ZipAt(t, i)}
    IN  IF at = {} THEN <<>>
        ELSE LET i == CHOOSE x \in at : \A y \in at : x <= y
             IN  SubSeq(t, i, i + 4)

\* Mutant: a fallback that returns every specialty it matched.
FallbackExtractionUncut(t) ==
    LET specialties == Matching(specialty_keywords, Lower(t))
        insurers    == Matching(insurance_keywords, Lower(t))
    IN  [injury_description      |-> t,
         zip_code                |-> FirstZip(t),
         insurance               |-> IF insurers = <<>> THEN <<>> ELSE <<Head(insurers)>>,
         recommended_specialties |->
             IF specialties = <<>> THEN <<"General Surgery", "Primary Care">>
             ELSE specialties]

\* _fallback_extraction(transcription)
FallbackExtraction(t) ==
    LET specialties == Matching(specialty_keywords, Lower(t))
        insurers    == Matching(insurance_keywords, Lower(t))
    IN  [injury_description      |-> t,
         zip_code                |-> FirstZip(t),
         insurance               |-> IF insurers = <<>> THEN <<>> ELSE <<Head(insurers)>>,
         recommended_specialties |->
             Take(IF specialties = <<>> THEN <<"General Surgery", "Primary Care">>
                  ELSE specialties, 3)]

\* A capability response is a sequence of tokens: a stretch of prose, an
\* opening or closing brace, or one complete `"key": value` member.
ProseTok    == [t |-> "prose", k |-> "", v |-> <<>>]
OpenTok     == [t |-> "{",     k |-> "", v |-> <<>>]
CloseTok    == [t |-> "}",     k |-> "", v |-> <<>>]
Member(k, v) == [t |-> "member", k |-> k, v |-> v]

RespTokens ==
    { ProseTok, OpenTok, CloseTok,
      Member("injury_description", <<"knee", " ", "pain">>),
      Member("zip_code", <<"1", "0", "0", "0", "1">>),
      Member("recommended_specialties",
             <<"Orthopedics", "Sports Medicine", "Physical Therapy", "Neurology">>) }

Responses == UNION {[1..n -> RespTokens] : n \in 0..MaxResp}

\* What the text-generation capability does at one call: constructing the
\* client raises, invoke raises, or invoke returns a response.
LlmBehaviours ==
    { [kind |-> "init_raises",   resp |-> <<>>],
      [kind |-> "invoke_raises", resp |-> <<>>] }
    \cup {[kind |-> "returns", resp |-> r] : r \in Responses}

\* re.search(r'\{.*\}', response_text, re.DOTALL): greedy, so from the first
\* opening brace to the last closing brace after it; None without a match.
JsonMatch(resp) ==
    LET opens  == {i \in 1..Len(resp) : resp[i] = OpenTok}
        first  == CHOOSE i \in opens : \A j \in opens : i <= j
        closes == {j \in 1..Len(resp) : resp[j] = CloseTok /\ j > first}
        last   == CHOOSE j \in closes : \A i \in closes : i <= j
    IN  IF opens = {} THEN None
        ELSE IF closes = {} THEN None
        ELSE Some(SubSeq(resp, first, last))

\* json.loads(json_str) succeeds iff the text is one object: braces around
\* members only.
JsonValid(str) ==
    /\ Len(str) >= 2
    /\ str[1] = OpenTok
    /\ str[Len(str)] = CloseTok
    /\ \A i \in 2..(Len(str) - 1) : str[i].t = "member"

\* dict lookup with a default; of a repeated key json.loads keeps the last.
Lookup(str, key, default) ==
    LET at == {i \in 1..Len(str) : str[i].t = "member" /\ str[i].k = key}
    IN  IF at = {} THEN default
        ELSE str[CHOOSE i \in at : \A j \in at : j <= i].v

Returned(d) == [kind |-> "ok", data |-> d]
RaisedExc   == [kind |-> "raises", data |-> <<>>]

\* Mutant: _extract_medical_info_with_llm letting json.loads' error escape.
ExtractMedicalInfoUncaught(t, b) ==
    IF b.kind # "returns" THEN Returned(FallbackExtraction(t))
    ELSE LET m == JsonMatch(b.resp)
         IN  IF m = None THEN Returned(FallbackExtraction(t))
             ELSE IF ~JsonValid(m[1]) THEN RaisedExc
             ELSE Returned(
                 [injury_description |->
                      Lookup(m[1], "injury_description", <<"No specific symptoms mentioned">>),
                  zip_code  |-> Lookup(m[1], "zip_code", <<>>),
                  insurance |-> Lookup(m[1], "insurance", <<>>),
                  recommended_specialties |-> Lookup(m[1], "recommended_specialties", <<>>)])

\* _extract_medical_info_with_llm(transcription): everything raised inside
\* (by LLMClient(), by invoke, by json.loads) ends in _fallback_extraction.
ExtractMedicalInfoWithLLM(t, b) ==
    IF b.kind # "returns" THEN Returned(FallbackExtraction(t))
    ELSE LET m == JsonMatch(b.resp)
         IN  IF m = None THEN Returned(FallbackExtraction(t))
             ELSE IF ~JsonValid(m[1]) THEN Returned(FallbackExtraction(t))
             ELSE Returned(
                 [injury_description |->
                      Lookup(m[1], "injury_description", <<"No specific symptoms mentioned">>),
                  zip_code  |-> Lookup(m[1], "zip_code", <<>>),
                  insurance |-> Lookup(m[1], "insurance", <<>>),
                  recommended_specialties |-> Lookup(m[1], "recommended_specialties", <<>>)])

\* _extract_structured_info(transcription): the except branch does the basic
\* extraction (raw text and first zip code only).
ExtractStructuredInfo(t, b) ==
    LET r == ExtractMedicalInfoWithLLM(t, b)
    IN  IF r.kind = "ok"
        THEN [kind |-> "ok", transcription |-> t,
              symptoms |-> r.data.injury_description,
              location |-> r.data.zip_code,
              raw_text |-> t,
              structured_data |-> r.data]
        ELSE [kind |-> "ok", transcription |-> t,
              symptoms |-> t,
              location |-> FirstZip(t),
              raw_text |-> t,
              structured_data |-> [injury_description |-> t, zip_code |-> FirstZip(t)]]

\* The call _extract_structured_info(text), the capability behaving as llm.
extract_structured_info ==
    /\ extractResult.out = None
    /\ extractResult' =
          [extractResult EXCEPT
              !.out = Some(ExtractStructuredInfo(extractResult.text, extractResult.llm))]
    /\ UNCHANGED <<catalogVars, voiceVars, recVars, laterVars>>

\* The inputs of one extraction: a transcription and what the capability
\* will do when called.
ExtractInputs ==
    extractResult \in [text : Texts, llm : LlmBehaviours, out : {None}]

CatalogIdle ==
    /\ source = [p \in Paths |-> Absent]
    /\ _provider_cache = None
    /\ loadResult = NoResult
    /\ firstLoaded = None
    /\ loads = 0
    /\ invalidated = FALSE

InitExtract == CatalogIdle /\ VoiceIdle /\ ExtractInputs /\ RecIdle /\ LaterIdle

SpecExtract == InitExtract /\ [][extract_structured_info]_vars

\* The extraction is degraded: the capability call raised, or the response
\* holds no brace-delimited object, or json.loads of that object raises.
Degraded(b) ==
    \/ b.kind # "returns"
    \/ JsonMatch(b.resp) = None
    \/ ~JsonValid(JsonMatch(b.resp)[1])

\* C6: _extract_structured_info always returns, and whenever the extraction
\* is degraded the record it returns is the fallback extractor's record for
\* the raw text, whose injury_description is the raw text itself.
C6_DegradedExtractionIsFallback ==
    extractResult.out # None =>
        LET out == extractResult.out[1]
        IN  /\ out.kind = "ok"
            /\ Degraded(extractResult.llm) =>
                  /\ out.structured_data = FallbackExtraction(extractResult.text)
                  /\ out.structured_data.injury_description = extractResult.text
                  /\ out.symptoms = extractResult.text

\* C6 witness: the response held braces around text json.loads rejects, and
\* the fallback's record (with a zip code found in the text) was returned.
C6_Witness ==
    /\ extractResult.out # None
    /\ extractResult.llm.kind = "returns"
    /\ JsonMatch(extractResult.llm.resp) # None
    /\ ~JsonValid(JsonMatch(extractResult.llm.resp)[1])
    /\ extractResult.out[1].structured_data = FallbackExtraction(extractResult.text)
    /\ extractResult.out[1].location = <<"7", "5", "0", "2", "4">>

(***************************************************************************)
(* Transcription adapter (VoiceService)                                    *)
(***************************************************************************)

\* str.strip(): leading and trailing blanks removed.
RECURSIVE LStrip(_)
LStrip(t) == IF t # <<>> /\ Head(t) = " " THEN LStrip(Tail(t)) ELSE t

RECURSIVE RStrip(_)
RStrip(t) ==
    IF t # <<>> /\ t[Len(t)] = " " THEN RStrip(SubSeq(t, 1, Len(t) - 1)) ELSE t

Strip(t) == RStrip(LStrip(t))

\* What each backend would recognise in the audio of a request; the two
\* backends never give the same text.
AzureTexts   == {<<" ">> \o TextKnee, TextPlain \o <<" ">>}
WhisperTexts == {<<" ">> \o TextHeart \o <<" ">>, TextMany}

\* What the capability does during the extraction made by a request.
AudioLlmBehaviours ==
    { [kind |-> "init_raises", resp |-> <<>>],
      [kind |-> "returns",
       resp |-> <<OpenTok, Member("injury_description", <<"knee", " ", "pain">>), CloseTok>>] }

\* One audio request: how preprocessing, each backend and the capability
\* behave on it.
AudioRequests ==
    [ preprocess  : {"ok", "fails"},
      azure       : {"recognized", "not_recognized", "raises"},
      azureText   : AzureTexts,
      whisper     : {"ok", "raises"},
      whisperText : WhisperTexts,
      llm         : AudioLlmBehaviours ]

\* The environment VoiceService() is constructed in.
VoiceEnvs ==
    [ USE_AZURE_SPEECH    : BOOLEAN,
      AZURE_SPEECH_KEY    : BOOLEAN,     \* set and not empty
      AZURE_SPEECH_REGION : BOOLEAN,
      whisper_load        : {"ok", "raises"},
      speech_config       : {"ok", "raises", "raises_on_language"} ]

\* _init_azure_speech(): <<azure_speech_config is set, use_azure>>.
InitAzureSpeech(env) ==
    IF ~env.AZURE_SPEECH_KEY \/ ~env.AZURE_SPEECH_REGION THEN <<FALSE, FALSE>>
    ELSE CASE env.speech_config = "raises"             -> <<FALSE, FALSE>>
           [] env.speech_config = "raises_on_language" -> <<TRUE, FALSE>>
           [] OTHER                                    -> <<TRUE, TRUE>>

\* VoiceService.__init__()
NewVoiceService(env) ==
    LET az == IF env.USE_AZURE_SPEECH THEN InitAzureSpeech(env) ELSE <<FALSE, FALSE>>
    IN  [ whisper_model       |-> env.whisper_load = "ok",     \* loaded, else None
          azure_speech_config |-> az[1],
          use_azure           |-> az[2],
          env                 |-> env ]

Transcript(text, confidence, method) ==
    [kind |-> "ok", transcription |-> text, confidence |-> confidence, method |-> method]
TranscribeRaises ==
    [kind |-> "Exception", transcription |-> <<>>, confidence |-> "", method |-> ""]

\* _transcribe_with_whisper
TranscribeWithWhisper(v, req) ==
    IF ~v.whisper_model THEN TranscribeRaises
    ELSE IF req.whisper = "raises" THEN TranscribeRaises
    ELSE Transcript(Strip(req.whisperText), "0.0", "whisper")

\* Mutant: the fallback's transcript tagged with the backend first asked.
TranscribeWithAzureKeepsTag(v, req) ==
    IF req.azure = "recognized"
    THEN Transcript(Strip(req.azureText), "0.9", "azure")
    ELSE LET w == TranscribeWithWhisper(v, req)
         IN  IF w.kind = "ok" THEN [w EXCEPT !.method = "azure"] ELSE w

\* Mutant: no fallback to Whisper when Azure fails.
TranscribeWithAzureNoFallback(v, req) ==
    IF req.azure = "recognized"
    THEN Transcript(Strip(req.azureText), "0.9", "azure")
    ELSE TranscribeRaises

\* _transcribe_with_azure: a result other than RecognizedSpeech raises inside
\* the try, and every exception ends in _transcribe_with_whisper.
TranscribeWithAzure(v, req) ==
    IF req.azure = "recognized"
    THEN Transcript(Strip(req.azureText), "0.9", "azure")
    ELSE TranscribeWithWhisper(v, req)

\* process_audio_file: `leftover` is the preprocessed copy still on disk when
\* the call ends (os.remove is reached only after a successful extraction).
ProcessAudioFile(v, req) ==
    LET tr == IF v.use_azure /\ v.azure_speech_config
              THEN TranscribeWithAzure(v, req)
              ELSE TranscribeWithWhisper(v, req)
    IN  IF tr.kind = "ok"
        THEN [ kind              |-> "ok",
               extracted         |-> Some(ExtractStructuredInfo(tr.transcription, req.llm)),
               transcription     |-> tr.transcription,
               confidence        |-> tr.confidence,
               processing_method |-> tr.method,
               leftover          |-> FALSE ]
        ELSE [ kind              |-> "Exception",
               extracted         |-> None,
               transcription     |-> <<>>,
               confidence        |-> "",
               processing_method |-> "",
               leftover          |-> req.preprocess = "ok" ]

\* voice_service = VoiceService(), once, when routes/voice.py is imported.
new_voice_service ==
    /\ voice = None
    /\ \E env \in VoiceEnvs : voice' = Some(NewVoiceService(env))
    /\ UNCHANGED <<audioResult, catalogVars, extractVars, recVars, laterVars>>

\* voice_service.process_audio_file(path) for one upload.
process_audio_file ==
    /\ voice # None
    /\ \E req \in AudioRequests :
          audioResult' = Some([req |-> req, out |-> ProcessAudioFile(voice[1], req)])
    /\ UNCHANGED <<voice, catalogVars, extractVars, recVars, laterVars>>

InitVoice == CatalogIdle /\ VoiceIdle /\ ExtractIdle /\ RecIdle /\ LaterIdle

VoiceNext == new_voice_service \/ process_audio_file

SpecVoice == InitVoice /\ [][VoiceNext]_vars

\* The cloud backend is the one process_audio_file asks first.
CloudAsked == voice[1].use_azure /\ voice[1].azure_speech_config

\* C4: the processing_method of a returned transcript names the backend whose
\* text it carries: "azure" only if Azure was asked and recognised the speech,
\* and then the text is Azure's; "whisper" whenever Azure was asked and failed
\* (or was not asked), and then the text is Whisper's.
C4_MethodNamesProducer ==
    (audioResult # None /\ audioResult[1].out.kind = "ok") =>
        LET req == audioResult[1].req
            out == audioResult[1].out
        IN  /\ out.processing_method \in {"azure", "whisper"}
            /\ out.processing_method = "azure" =>
                  /\ CloudAsked /\ req.azure = "recognized"
                  /\ out.transcription = Strip(req.azureText)
            /\ out.processing_method = "whisper" =>
                  /\ ~(CloudAsked /\ req.azure = "recognized")
                  /\ out.transcription = Strip(req.whisperText)

\* C4 witness: Azure was asked and failed, Whisper produced the text, and
\* the transcript is tagged "whisper".
C4_Witness ==
    /\ audioResult # None
    /\ CloudAsked
    /\ audioResult[1].req.azure = "not_recognized"
    /\ audioResult[1].out.kind = "ok"
    /\ audioResult[1].out.processing_method = "whisper"
    /\ audioResult[1].out.transcription = Strip(audioResult[1].req.whisperText)

\* The local backend can transcribe the request: the Whisper model is loaded
\* and its transcribe call returns.
LocalAvailable == voice[1].whisper_model /\ audioResult[1].req.whisper = "ok"

\* The cloud backend was selected by configuration but produced nothing:
\* credentials missing, its configuration raised, or its recognition failed.
CloudSelectedButFailed ==
    /\ voice[1].env.USE_AZURE_SPEECH
    /\ ~(CloudAsked /\ audioResult[1].req.azure = "recognized")

\* C5: with the cloud backend selected but misconfigured or failing, a request
\* succeeds with the local backend's transcript whenever the local backend is
\* available; a request fails only when no backend produced a transcript.
C5_CloudFailureFallsBackToLocal ==
    audioResult # None =>
        LET req == audioResult[1].req
            out == audioResult[1].out
        IN  /\ (CloudSelectedButFailed /\ LocalAvailable) =>
                  /\ out.kind = "ok"
                  /\ out.transcription = Strip(req.whisperText)
            /\ out.kind # "ok" =>
                  /\ ~LocalAvailable
                  /\ ~(CloudAsked /\ req.azure = "recognized")

\* C5 witness: Azure is selected and configured, its call raises, and the
\* request returns Whisper's transcript.
C5_Witness ==
    /\ audioResult # None
    /\ CloudAsked
    /\ audioResult[1].req.azure = "raises"
    /\ audioResult[1].out.kind = "ok"
    /\ audioResult[1].out.transcription = Strip(audioResult[1].req.whisperText)

(***************************************************************************)
(* Specialty recommendation (SpecialtyService, LLMClient.get_specialties)  *)
(***************************************************************************)

\* Most comma-separated fields in a capability response.
MaxFields == 4

\* Catalogs the service is constructed over.
CatalogNone  == << >>
CatalogMixed == <<ProvNeuro, ProvPrimary, ProvOrtho, ProvCardio>>
CatalogFive  == <<ProvInternal, ProvOrtho, ProvPT, ProvSports, ProvPrimary, ProvOrtho2>>
RecCatalogs  == {CatalogNone, CatalogA, CatalogB, CatalogMixed, CatalogFive}

\* One field of a response: a name (or nothing), bare, after a blank, or
\* between blanks.
FieldText(name, pad) ==
    LET word == IF name = "" THEN <<>> ELSE <<name>>
    IN  CASE pad = "none" -> word
          [] pad = "lead" -> <<" ">> \o word
          [] OTHER        -> <<" ">> \o word \o <<" ">>

RespFields == {FieldText(n, p) : n \in {"Orthopedics", "Neurology", ""},
                                 p \in {"none", "lead", "both"}}

\* ",".join(fields)
RECURSIVE JoinComma(_)
JoinComma(fs) ==
    IF Len(fs) = 1 THEN fs[1] ELSE fs[1] \o <<",">> \o JoinComma(Tail(fs))

\* The raw texts the capability may return.
RawResponses == {JoinComma(fs) : fs \in UNION {[1..n -> RespFields] : n \in 1..MaxFields}}

RecLlmBehaviours ==
    { [kind |-> "init_raises",   raw |-> <<>>],
      [kind |-> "invoke_raises", raw |-> <<>>] }
    \cup {[kind |-> "returns", raw |-> r] : r \in RawResponses}

\* str.split(','): the fields between the commas, empty ones kept.
RECURSIVE SplitComma(_)
SplitComma(t) ==
    LET commas == {i \in 1..Len(t) : t[i] = ","}
        first  == CHOOSE i \in commas : \A j \in commas : i <= j
    IN  IF commas = {} THEN <<t>>
        ELSE <<SubSeq(t, 1, first - 1)>> \o SplitComma(SubSeq(t, first + 1, Len(t)))

\* The string a stripped field is: the empty string, a single name, or some
\* longer text, which is no specialty name.
LongerText == "(several words)"
NameOf(field) ==
    IF field = <<>> THEN ""
    ELSE IF Len(field) = 1 THEN field[1] ELSE LongerText

\* LLMClient.get_specialties: [s.strip() for s in raw_response.split(',')]
\* of the stripped response; [] when invoke raises.
GetSpecialties(b) ==
    IF b.kind = "invoke_raises" THEN <<>>
    ELSE LET fields == SplitComma(Strip(b.raw))
         IN  [i \in 1..Len(fields) |-> NameOf(Strip(fields[i]))]

\* SpecialtyService._extract_unique_specialties
ExtractUniqueSpecialties(providers) ==
    {providers[i].specialty : i \in 1..Len(providers)}

\* SpecialtyService.__init__ over the providers get_providers() returned.
NewSpecialtyService(providers) ==
    [providers |-> providers,
     available_specialties |-> ExtractUniqueSpecialties(providers)]

fallback_options ==
    <<"Orthopedics", "Sports Medicine", "Physical Therapy", "Primary Care",
      "Internal Medicine">>

\* Mutant: the fallback returned without the [:3].
GetFallbackSpecialtiesUncut(svc) == FilterIn(fallback_options, svc.available_specialties)

\* SpecialtyService._get_fallback_specialties
GetFallbackSpecialties(svc) ==
    Take(FilterIn(fallback_options, svc.available_specialties), 3)

\* Mutant: the capability's names cut to 3 before the filter instead of after.
GetLlmRecommendationsCutFirst(svc, b) ==
    IF b.kind = "init_raises" THEN GetFallbackSpecialties(svc)
    ELSE LET filtered == FilterIn(Take(GetSpecialties(b), 3), svc.available_specialties)
         IN  IF filtered # <<>> THEN filtered ELSE GetFallbackSpecialties(svc)

\* SpecialtyService._get_llm_recommendations: LLMClient() raising ends in
\* the except branch.
GetLlmRecommendations(svc, b) ==
    IF b.kind = "init_raises" THEN GetFallbackSpecialties(svc)
    ELSE LET filtered == FilterIn(GetSpecialties(b), svc.available_specialties)
         IN  IF filtered # <<>> THEN Take(filtered, 3) ELSE GetFallbackSpecialties(svc)

\* specialty_service = SpecialtyService(): the constructor calls
\* get_providers(); if that raises, no instance is made.
new_specialty_service ==
    /\ service = None
    /\ CallGetProviders
    /\ service' = IF loadResult'.kind = "ok"
                  THEN Some(NewSpecialtyService(loadResult'.value[1]))
                  ELSE None
    /\ UNCHANGED <<recResult, voiceVars, extractVars, laterVars>>

\* specialty_service.get_specialty_recommendations(injury_description); the
\* description goes into the prompt only.
get_specialty_recommendations ==
    /\ service # None
    /\ recResult.out = None
    /\ \E b \in RecLlmBehaviours :
          recResult' = [llm |-> b,
                        out |-> Some([kind |-> "ok",
                                      value |-> GetLlmRecommendations(service[1], b)])]
    /\ UNCHANGED <<service, catalogVars, voiceVars, extractVars, laterVars>>

InitRecommend ==
    /\ \E c \in RecCatalogs :
          source = [p \in Paths |-> IF p = possible_paths[1] THEN JsonFile(c) ELSE Absent]
    /\ _provider_cache = None
    /\ loadResult = NoResult
    /\ firstLoaded = None
    /\ loads = 0
    /\ invalidated = FALSE
    /\ VoiceIdle /\ ExtractIdle /\ RecIdle /\ LaterIdle

RecommendNext == new_specialty_service \/ get_specialty_recommendations

SpecRecommend == InitRecommend /\ [][RecommendNext]_vars

\* The specialties of the catalog the service was constructed over.
Available == service[1].available_specialties

\* The names the capability returned at the last recommendation, as
\* get_specialties hands them over.
CapabilityNames == GetSpecialties(recResult.llm)

\* The capability gave at least one name of the catalog.
PrimaryPath ==
    /\ recResult.llm.kind = "returns"
    /\ \E i \in 1..Len(CapabilityNames) : CapabilityNames[i] \in Available

\* C7: on the primary path the recommendation is the capability's names
\* without those that are no specialty of the catalog, in the order
\* returned, cut to the first 3; for the catalog {Orthopedics, Cardiology}
\* and the response "Orthopedics, Neurology" it is exactly [Orthopedics].
C7_PrimaryPathFiltersInOrder ==
    (recResult.out # None /\ PrimaryPath) =>
        LET value == recResult.out[1].value
            kept  == {i \in 1..Len(CapabilityNames) : CapabilityNames[i] \in Available}
            \* the position in CapabilityNames of the n-th kept name
            pos(n) == CHOOSE i \in kept : Cardinality({j \in kept : j <= i}) = n
        IN  /\ Len(value) = IF Cardinality(kept) < 3 THEN Cardinality(kept) ELSE 3
            /\ \A n \in 1..Len(value) : value[n] = CapabilityNames[pos(n)]
            /\ (Available = {"Orthopedics", "Cardiology"}
                  /\ recResult.llm.raw = <<"Orthopedics", ",", " ", "Neurology">>)
                  => value = <<"Orthopedics">>

\* C7 witness: the capability returned four names of the catalog, with
\* blanks around some, and the first three came back in the order returned.
C7_Witness ==
    /\ recResult.out # None
    /\ recResult.llm.raw = <<"Neurology", ",", " ", "Orthopedics", ",",
                             " ", "Neurology", " ", ",", "Orthopedics">>
    /\ Available = {"Neurology", "Primary Care", "Orthopedics", "Cardiology"}
    /\ recResult.out[1].value = <<"Neurology", "Orthopedics", "Neurology">>

\* The capability gave nothing usable: the client could not be made, the call
\* raised, or no returned name is a specialty of the catalog (an empty
\* response included).
FallbackPath ==
    \/ recResult.llm.kind \in {"init_raises", "invoke_raises"}
    \/ \A i \in 1..Len(CapabilityNames) : CapabilityNames[i] \notin Available

\* C8: a recommendation always returns, and on the fallback path it is the
\* list Orthopedics, Sports Medicine, Physical Therapy, Primary Care,
\* Internal Medicine without the names that are no specialty of the catalog,
\* in that order, cut to the first 3.
C8_FallbackIsFixedListInOrder ==
    recResult.out # None =>
        /\ recResult.out[1].kind = "ok"
        /\ FallbackPath =>
              recResult.out[1].value =
                  Take(FilterIn(<<"Orthopedics", "Sports Medicine", "Physical Therapy",
                                  "Primary Care", "Internal Medicine">>, Available), 3)

\* C8 witness: the capability's only names are not in a catalog that has all
\* five fallback specialties, and the first three of the list came back.
C8_Witness ==
    /\ recResult.out # None
    /\ recResult.llm.kind = "returns"
    /\ recResult.llm.raw = <<"Neurology", ",", " ", "Neurology">>
    /\ Cardinality(Available) = 5
    /\ recResult.out[1].value = <<"Orthopedics", "Sports Medicine", "Physical Therapy">>

\* C9 (as claimed): no specialty name occurs twice in a recommendation.
C9_NoDuplicates ==
    recResult.out # None => NoDuplicates(recResult.out[1].value)

\* C10 (as claimed): over a catalog with at least one specialty a
\* recommendation has between 1 and 3 names.
C10_NonEmptyUnlessCatalogEmpty ==
    (recResult.out # None /\ Available # {}) =>
        (Len(recResult.out[1].value) >= 1 /\ Len(recResult.out[1].value) <= 3)

(***************************************************************************)
(* Provider ranking (services/provider_ranker.py, main.py)                 *)
(*                                                                         *)
(* Floats are modelled exactly: a distance is an integer number of 1/1000  *)
(* mile, a match factor an integer number of tenths, a score the fraction  *)
(* num/den. The zip codes below are such that rounding to double changes   *)
(* neither the order nor the equality of two scores.                       *)
(***************************************************************************)

\* Most providers handed to one ranking call.
MaxProviders == 4

\* dict.get(key): Some(value), or None (Python's None) for a missing key.
Get(d, key) == IF key \in DOMAIN d THEN Some(d[key]) ELSE None

\* str.isdigit(): at least one character and all of them digits. "^2" stands
\* for a character such as U+00B2, which isdigit() accepts and int() rejects.
IsDigit(z) == z # <<>> /\ \A i \in 1..Len(z) : z[i] \in Digits \cup {"^2"}

\* The value int() gives for a string of the digits 0 to 9.
RECURSIVE Decimal(_)
Decimal(z) ==
    LET value(c) == CHOOSE n \in 0..9 :
                        <<"0", "1", "2", "3", "4", "5", "6", "7", "8", "9">>[n + 1] = c
    IN  IF z = <<>> THEN 0
        ELSE 10 * Decimal(SubSeq(z, 1, Len(z) - 1)) + value(z[Len(z)])

\* int(zip[:5]) if zip.isdigit() else 10000: Some(value), or None when int()
\* raises ValueError.
ZipNum(z) ==
    IF ~IsDigit(z) THEN Some(10000)
    ELSE IF \E i \in 1..Len(Take(z, 5)) : z[i] \notin Digits THEN None
    ELSE Some(Decimal(Take(z, 5)))

\* provider_ranker.calculate_distance: any exception gives 50.0.
CalculateDistance(zip1, zip2) ==
    LET zip1_num == ZipNum(zip1)
        zip2_num == ZipNum(zip2)
        diff     == zip1_num[1] - zip2_num[1]
    IN  IF zip1_num = None \/ zip2_num = None THEN 50000
        ELSE IF diff < 0 THEN -diff ELSE diff

\* main.calculate_distance: 50.0 for an empty zip code, then as above.
MainCalculateDistance(zip1, zip2) ==
    LET zip1_num == ZipNum(zip1)
        zip2_num == ZipNum(zip2)
        diff     == zip1_num[1] - zip2_num[1]
    IN  IF zip1 = <<>> \/ zip2 = <<>> THEN 50000
        ELSE IF zip1_num = None \/ zip2_num = None THEN 50000
        ELSE IF diff < 0 THEN -diff ELSE diff

\* Mutant: the specialty factor weighted 0.2 instead of 0.5.
ScoreSpecialtyUnderweighted(specialty_match, insurance_match, distance) ==
    [num |-> (2 * specialty_match + 3 * insurance_match) * (1000 + distance) + 20000,
     den |-> 100 * (1000 + distance)]

\* Mutant: the insurance factor weighted 0.5 instead of 0.3.
ScoreOverweighted(specialty_match, insurance_match, distance) ==
    [num |-> (5 * specialty_match + 5 * insurance_match) * (1000 + distance) + 20000,
     den |-> 100 * (1000 + distance)]

\* (specialty_match * 0.5) + (insurance_match * 0.3) + (1.0 / (1.0 + distance) * 0.2)
\* with the factors in tenths and the distance in 1/1000 mile.
Score(specialty_match, insurance_match, distance) ==
    [num |-> (5 * specialty_match + 3 * insurance_match) * (1000 + distance) + 20000,
     den |-> 100 * (1000 + distance)]

\* a/b < c/d for a, c >= 0 and b, d > 0, without forming a product.
RECURSIVE FracLess(_, _, _, _)
FracLess(a, b, c, d) ==
    IF a \div b # c \div d THEN a \div b < c \div d
    ELSE IF c % d = 0 THEN FALSE
    ELSE IF a % b = 0 THEN TRUE
    ELSE FracLess(d, c % d, b, a % b)

\* x["score"] < y["score"]
ScoreLess(x, y) == FracLess(x.score.num, x.score.den, y.score.num, y.score.den)

\* Mutant: the proximity reason given up to and including 10 miles.
ReasonsInclusive(specialty_match, insurance_match, distance, insurance, proximity) ==
    (IF specialty_match > 8 THEN <<"Specialty match">> ELSE <<>>)
    \o (IF insurance_match > 8 THEN <<insurance>> ELSE <<>>)
    \o (IF distance <= 10000 THEN <<proximity>> ELSE <<>>)

\* The reasons list rank_providers builds for one provider; insurance and
\* proximity are the phrases of the implementation.
Reasons(specialty_match, insurance_match, distance, insurance, proximity) ==
    (IF specialty_match > 8 THEN <<"Specialty match">> ELSE <<>>)
    \o (IF insurance_match > 8 THEN <<insurance>> ELSE <<>>)
    \o (IF distance < 10000 THEN <<proximity>> ELSE <<>>)

\* ", ".join(reasons), the text as the sequence of its phrases and separators.
RECURSIVE JoinReasons(_)
JoinReasons(reasons) ==
    IF Len(reasons) <= 1 THEN reasons
    ELSE <<reasons[1], ", ">> \o JoinReasons(Tail(reasons))

\* ", ".join(reasons) or "General match"
RankingReason(reasons) ==
    IF reasons = <<>> THEN <<"General match">> ELSE JoinReasons(reasons)

\* One element of provider_ranker's ranked list; idx is a history field, the
\* position of the provider in the input sequence.
RankerEntry(provider, i, specialties, target_zip, target_insurance) ==
    LET specialty_match ==
            IF "specialty" \in DOMAIN provider /\ provider.specialty \in Range(specialties)
            THEN 10 ELSE 3
        distance ==
            CalculateDistance(target_zip,
                IF "zip_code" \in DOMAIN provider THEN provider.zip_code ELSE <<>>)
        insurance_match ==
            IF "insurances" \in DOMAIN provider /\ target_insurance \in Range(provider.insurances)
            THEN 10 ELSE 5
    IN  [name           |-> Get(provider, "name"),
         specialty      |-> Get(provider, "specialty"),
         distance       |-> distance,
         availability   |-> Get(provider, "availability_date"),
         ranking_reason |-> RankingReason(Reasons(specialty_match, insurance_match, distance,
                                                  "Insurance match", "Nearby provider")),
         score          |-> Score(specialty_match, insurance_match, distance),
         idx            |-> i]

\* Mutant: an element put in front of the elements of equal score.
InsertBeforeEqual(sorted, e) ==
    LET lower == {j \in 1..Len(sorted) : ~ScoreLess(e, sorted[j])}
        at    == IF lower = {} THEN Len(sorted) + 1
                 ELSE CHOOSE j \in lower : \A k \in lower : j <= k
    IN  SubSeq(sorted, 1, at - 1) \o <<e>> \o SubSeq(sorted, at, Len(sorted))

\* list.sort(key=score, reverse=True) is stable: an element goes behind the
\* elements of greater or equal score that came before it.
Insert(sorted, e) ==
    LET lower == {j \in 1..Len(sorted) : ScoreLess(sorted[j], e)}
        at    == IF lower = {} THEN Len(sorted) + 1
                 ELSE CHOOSE j \in lower : \A k \in lower : j <= k
    IN  SubSeq(sorted, 1, at - 1) \o <<e>> \o SubSeq(sorted, at, Len(sorted))

RECURSIVE SortByScore(_)
SortByScore(entries) ==
    IF entries = <<>> THEN <<>>
    ELSE Insert(SortByScore(SubSeq(entries, 1, Len(entries) - 1)), entries[Len(entries)])

\* The ranked list of provider_ranker.rank_providers before the sort; with
\* dicts of strings and lists nothing raises inside the loop.
RankerRanked(providers, specialties, target_zip, target_insurance) ==
    [i \in 1..Len(providers) |->
        RankerEntry(providers[i], i, specialties, target_zip, target_insurance)]

\* provider_ranker.rank_providers
RankProviders(providers, specialties, target_zip, target_insurance) ==
    Ok("rank_providers",
       Take(SortByScore(RankerRanked(providers, specialties, target_zip, target_insurance)), 3))

\* One element of main.py's ranked_providers. The loop over required_fields
\* only prints; provider["specialty"], ["zip_code"] and ["insurances"] raise
\* KeyError for a missing key and the provider is left out.
MainEntry(provider, i, specialties, target_zip, target_insurance) ==
    LET specialty_match == IF provider.specialty \in Range(specialties) THEN 10 ELSE 3
        distance        == MainCalculateDistance(target_zip, provider.zip_code)
        insurance_match == IF target_insurance \in Range(provider.insurances) THEN 10 ELSE 5
    IN  [provider       |-> provider,
         score          |-> Score(specialty_match, insurance_match, distance),
         ranking_reason |-> RankingReason(Reasons(specialty_match, insurance_match, distance,
                                                  "Insurance accepted", "Close proximity")),
         idx            |-> i]

RECURSIVE MainRanked(_, _, _, _, _)
MainRanked(providers, i, specialties, target_zip, target_insurance) ==
    IF i > Len(providers) THEN <<>>
    ELSE (IF {"specialty", "zip_code", "insurances"} \subseteq DOMAIN providers[i]
          THEN <<MainEntry(providers[i], i, specialties, target_zip, target_insurance)>>
          ELSE <<>>)
         \o MainRanked(providers, i + 1, specialties, target_zip, target_insurance)

\* main.rank_providers: the comprehension over ranked_providers[:5] raises
\* KeyError for a missing name, distance or availability_date, which the
\* outer except turns into Exception("Failed to rank providers").
MainRankProviders(providers, specialties, target_zip, target_insurance) ==
    LET top == Take(SortByScore(MainRanked(providers, 1, specialties, target_zip,
                                           target_insurance)), 5)
    IN  IF \E j \in 1..Len(top) :
              ~({"name", "distance", "availability_date"} \subseteq DOMAIN top[j].provider)
        THEN Raised("rank_providers", "Exception")
        ELSE Ok("rank_providers",
                [j \in 1..Len(top) |->
                    [name           |-> Some(top[j].provider.name),
                     specialty      |-> Some(top[j].provider.specialty),
                     distance       |-> top[j].provider.distance,
                     availability   |-> Some(top[j].provider.availability_date),
                     ranking_reason |-> top[j].ranking_reason,
                     idx            |-> top[j].idx]])

\* Inputs of the ranking calls.
Zip75024 == <<"7", "5", "0", "2", "4">>
ZipSuper == <<"^2", "5", "0", "2", "4">>

\* A provider dict without one of its keys.
Without(provider, key) == [f \in DOMAIN provider \ {key} |-> provider[f]]

RankCandidates ==
    { Provider("Dr. A", "Orthopedics", Zip75024, <<<<"Aetna">>>>),
      Provider("Dr. B", "Orthopedics", Zip75024, <<<<"Aetna">>, <<"Cigna">>>>),
      Provider("Dr. D", "Orthopedics", <<"8", "5", "0", "2", "4">>, <<<<"Aetna">>>>),
      Provider("Dr. E", "Sports Medicine", << >>, <<<<"Aetna">>>>),
      Provider("Dr. F", "Cardiology", ZipSuper, <<<<"Cigna">>>>),
      Without(Provider("Dr. G", "Cardiology", <<"7", "5", "0", "3", "4">>, <<<<"Cigna">>>>),
              "name"),
      Without(Provider("Dr. H", "Orthopedics", Zip75024, <<<<"Aetna">>>>), "zip_code") }

\* The arguments of one ranking call: at most MaxProviders distinct
\* candidates in any order, the recommended specialties, the target zip code
\* and the target insurance.
RankInputs ==
    LET lists == UNION { {ps \in [1..n -> RankCandidates] :
                              \A i, j \in 1..n : i # j => ps[i] # ps[j]}
                         : n \in 0..MaxProviders }
    IN  rankResult \in [providers        : lists,
                        specialties      : {<<"Orthopedics", "Sports Medicine">>, << >>},
                        target_zip       : {Zip75024, << >>, <<"a", "b", "c">>},
                        target_insurance : {<<"Aetna">>, <<"Cigna">>, << >>},
                        impl             : {"none"},
                        out              : {NoResult}]

\* A route calls services.provider_ranker.rank_providers.
rank_providers ==
    /\ rankResult.out = NoResult
    /\ rankResult' =
          [rankResult EXCEPT
              !.impl = "provider_ranker",
              !.out  = RankProviders(rankResult.providers, rankResult.specialties,
                                     rankResult.target_zip, rankResult.target_insurance)]
    /\ UNCHANGED <<catalogVars, voiceVars, extractVars, recVars, pipeResult, threads, produced>>

\* main.py's match_providers calls its own rank_providers.
main_rank_providers ==
    /\ rankResult.out = NoResult
    /\ rankResult' =
          [rankResult EXCEPT
              !.impl = "main",
              !.out  = MainRankProviders(rankResult.providers, rankResult.specialties,
                                         rankResult.target_zip, rankResult.target_insurance)]
    /\ UNCHANGED <<catalogVars, voiceVars, extractVars, recVars, pipeResult, threads, produced>>

InitRank ==
    /\ CatalogIdle /\ VoiceIdle /\ ExtractIdle /\ RecIdle /\ RankInputs
    /\ pipeResult = [route |-> "none", kind |-> "none", text |-> <<>>,
                     specialty_recommendations |-> <<>>, providers |-> <<>>,
                     total_providers_found |-> 0, capability |-> <<>>]
    /\ threads = <<>> /\ produced = {}

RankNext == rank_providers \/ main_rank_providers

SpecRank == InitRank /\ [][RankNext]_vars

\* The matches the last ranking call returned.
Matches == rankResult.out.value[1]

\* The input provider a match was made from.
ProviderOf(match) == rankResult.providers[match.idx]

required_fields ==
    {"name", "specialty", "zip_code", "insurances", "distance", "availability_date"}

WellFormed(provider) == required_fields \subseteq DOMAIN provider

\* The ranking call has returned.
Ranked == rankResult.out.kind = "ok"

\* C11: rank returns exactly min(k, number of candidate providers) matches,
\* with k defaulting to 3: a ranking call over well-formed candidates ends
\* with min(3, number of candidates) matches.
C11_ReturnsMinOfKAndCandidates ==
    (/\ rankResult.out # NoResult
     /\ \A i \in 1..Len(rankResult.providers) : WellFormed(rankResult.providers[i]))
    => /\ Ranked
       /\ Len(Matches) = IF Len(rankResult.providers) < 3
                         THEN Len(rankResult.providers) ELSE 3

\* x comes before y in the order by score descending, input position
\* ascending among equal scores.
Before(x, y) == ScoreLess(y, x) \/ (~ScoreLess(x, y) /\ x.idx < y.idx)

\* C12: the matches of provider_ranker's rank_providers are ordered by score,
\* descending, providers of equal score in their order in the input, and
\* they are the first 3 of that order: every provider left out comes after
\* every match.
C12_SortedByScoreStableFirstK ==
    (rankResult.impl = "provider_ranker" /\ Ranked)
    => LET all == RankerRanked(rankResult.providers, rankResult.specialties,
                               rankResult.target_zip, rankResult.target_insurance)
           kept == {Matches[j].idx : j \in 1..Len(Matches)}
       IN  /\ \A j \in 1..Len(Matches) : Matches[j] = all[Matches[j].idx]
           /\ \A j, k \in 1..Len(Matches) : j < k => Before(Matches[j], Matches[k])
           /\ \A i \in 1..Len(all) : i \notin kept =>
                  /\ Len(Matches) = 3
                  /\ \A j \in 1..Len(Matches) : Before(Matches[j], all[i])

\* A ranking of four providers whose second and third match have the same
\* score, with the provider that was left out first in the input.
C12_Witness ==
    /\ rankResult.impl = "provider_ranker" /\ Ranked
    /\ Len(rankResult.providers) = 4
    /\ Len(Matches) = 3
    /\ Matches[2].score = Matches[3].score
    /\ ScoreLess(Matches[2], Matches[1])
    /\ Matches[2].idx < Matches[3].idx
    /\ \A j \in 1..3 : Matches[j].idx # 1

\* C13: the score rank computes for a provider lies in [0, 1].
C13_ScoreInUnitInterval ==
    (rankResult.impl = "provider_ranker" /\ Ranked)
    => \A j \in 1..Len(Matches) :
          /\ Matches[j].score.den > 0
          /\ 0 <= Matches[j].score.num
          /\ Matches[j].score.num <= Matches[j].score.den

\* Matches with the greatest score, 1, and with a score below 1/2.
C13_Witness ==
    /\ rankResult.impl = "provider_ranker" /\ Ranked
    /\ \E j, k \in 1..Len(Matches) :
          /\ Matches[j].score.num = Matches[j].score.den
          /\ 2 * Matches[k].score.num < Matches[k].score.den

\* C14: the distance rank uses is |zip5(target_zip) - zip5(provider zip)| / 1000,
\* zip5 being the first 5 characters as an integer for an all-digit string
\* and 10000 for a non-empty string that is not all digits; it is 50.0 when
\* either zip is empty.
C14_DistanceOfZipCodes ==
    (rankResult.impl = "provider_ranker" /\ Ranked)
    => \A j \in 1..Len(Matches) :
          LET p == ProviderOf(Matches[j])
              ascii(z) == \A i \in 1..Len(z) : z[i] \in Digits
              zip5(z)  == IF ascii(z) THEN Decimal(Take(z, 5)) ELSE 10000
              diff     == zip5(rankResult.target_zip) - zip5(p.zip_code)
          IN  ("zip_code" \in DOMAIN p /\ p.zip_code # ZipSuper)
              => Matches[j].distance =
                    IF rankResult.target_zip = <<>> \/ p.zip_code = <<>> THEN 50000
                    ELSE IF diff < 0 THEN -diff ELSE diff

\* The distance the last ranking call computed for a match.
ComputedDistance(match) ==
    IF rankResult.impl = "main"
    THEN MainCalculateDistance(rankResult.target_zip, ProviderOf(match).zip_code)
    ELSE match.distance

\* C15: the ranking_reason of a match is the ', '-joined list, in this
\* order, of 'Specialty match' iff the provider's specialty is among the
\* recommended ones, an insurance phrase iff the target insurance is among
\* the provider's insurances, a proximity phrase iff the computed distance
\* is below 10; it is 'General match' iff none of the three applies.
C15_RankingReason ==
    Ranked =>
    \A j \in 1..Len(Matches) :
        LET p         == ProviderOf(Matches[j])
            reason    == Matches[j].ranking_reason
            insurance == {"Insurance match", "Insurance accepted"}
            proximity == {"Nearby provider", "Close proximity"}
            phrases   == [k \in 1..((Len(reason) + 1) \div 2) |-> reason[2 * k - 1]]
            class(ph) == IF ph = "Specialty match" THEN 1
                         ELSE IF ph \in insurance THEN 2
                         ELSE IF ph \in proximity THEN 3 ELSE 0
            none      == reason = <<"General match">>
        IN  /\ Len(reason) % 2 = 1
            /\ \A k \in 1..Len(reason) : (k % 2 = 0) <=> (reason[k] = ", ")
            /\ ~none => /\ \A k \in 1..Len(phrases) : class(phrases[k]) # 0
                        /\ \A k, l \in 1..Len(phrases) :
                              k < l => class(phrases[k]) < class(phrases[l])
            /\ (~none /\ "Specialty match" \in Range(phrases))
                  <=> ("specialty" \in DOMAIN p /\ p.specialty \in Range(rankResult.specialties))
            /\ (~none /\ Range(phrases) \cap insurance # {})
                  <=> ("insurances" \in DOMAIN p
                       /\ rankResult.target_insurance \in Range(p.insurances))
            /\ (~none /\ Range(phrases) \cap proximity # {})
                  <=> ComputedDistance(Matches[j]) < 10000
            /\ none <=> /\ ~("specialty" \in DOMAIN p
                             /\ p.specialty \in Range(rankResult.specialties))
                        /\ ~("insurances" \in DOMAIN p
                             /\ rankResult.target_insurance \in Range(p.insurances))
                        /\ ~(ComputedDistance(Matches[j]) < 10000)

\* A ranking with a match of all three reasons, a match at exactly 10 miles
\* that has the two other reasons only, and a 'General match'.
C15_Witness ==
    /\ Ranked
    /\ \E j, k, l \in 1..Len(Matches) :
          /\ Len(Matches[j].ranking_reason) = 5
          /\ ComputedDistance(Matches[k]) = 10000
          /\ Len(Matches[k].ranking_reason) = 3
          /\ Matches[l].ranking_reason = <<"General match">>

\* C16: a provider record missing a required field is skipped by rank: the
\* call returns, and no match was made from such a record.
C16_MalformedProviderSkipped ==
    rankResult.out # NoResult
    => /\ Ranked
       /\ \A j \in 1..Len(Matches) : WellFormed(ProviderOf(Matches[j]))

(***************************************************************************)
(* Request pipeline (routes/voice.py, routes/match_providers.py)           *)
(***************************************************************************)

\* What the capability does at the extraction call of a request.
PipeLlmBehaviours ==
    { [kind |-> "init_raises", resp |-> <<>>],
      [kind |-> "returns", resp |-> <<>>],
      [kind |-> "returns", resp |-> <<ProseTok>>],
      [kind |-> "returns",
       resp |-> <<OpenTok, Member("injury_description", <<"knee", " ", "pain">>),
                  Member("zip_code", Zip10001), CloseTok>>] }

\* What the capability does at the recommendation call of a request.
PipeRecLlmBehaviours ==
    { [kind |-> "init_raises", raw |-> <<>>],
      [kind |-> "returns", raw |-> <<>>],
      [kind |-> "returns", raw |-> <<"Neurology", ",", " ", "Orthopedics">>] }

\* The response of a route is the dict it returns or the HTTPException 500
\* its except branch raises. Two history fields go with it: text, the text
\* the request was about, and capability, what the capability did at the
\* extraction and at the recommendation call (filled in by the action).
Failure(route, t) ==
    [route |-> route, kind |-> "HTTPException", text |-> t,
     specialty_recommendations |-> <<>>, providers |-> <<>>, total_providers_found |-> 0,
     capability |-> <<>>]

\* Mutant: a recommendation stage whose capability error reaches the handler.
MatchAndRespondUnabsorbed(route, svc, load, voice_result, rb) ==
    LET insurance == IF "insurance" \in DOMAIN voice_result.structured_data
                     THEN voice_result.structured_data.insurance ELSE <<>>
        recs      == GetLlmRecommendations(svc, rb)
    IN  IF rb.kind # "returns" \/ load.kind # "ok"
        THEN Failure(route, voice_result.raw_text)
        ELSE LET matching == SelectSeq(load.value[1],
                                 LAMBDA p : "specialty" \in DOMAIN p
                                            /\ p.specialty \in Range(recs))
                 ranked   == RankProviders(matching, recs, voice_result.location,
                                           insurance).value[1]
             IN  [route |-> route, kind |-> "success", text |-> voice_result.raw_text,
                  specialty_recommendations |-> recs,
                  providers |-> Take(ranked, 3),
                  total_providers_found |-> Len(ranked),
                  capability |-> <<>>]

\* Mutant: the matching stage without the filter by specialty.
MatchAndRespondUnfiltered(route, svc, load, voice_result, rb) ==
    LET insurance == IF "insurance" \in DOMAIN voice_result.structured_data
                     THEN voice_result.structured_data.insurance ELSE <<>>
        recs      == GetLlmRecommendations(svc, rb)
    IN  IF load.kind # "ok" THEN Failure(route, voice_result.raw_text)
        ELSE LET ranked == RankProviders(load.value[1], recs, voice_result.location,
                                         insurance).value[1]
             IN  [route |-> route, kind |-> "success", text |-> voice_result.raw_text,
                  specialty_recommendations |-> recs,
                  providers |-> Take(ranked, 3),
                  total_providers_found |-> Len(ranked),
                  capability |-> <<>>]

\* The part process_text_input and upload_and_process_audio share: the
\* recommendation by the long-lived specialty_service, get_providers() (its
\* outcome is load), the filter by specialty, the ranking and the response.
MatchAndRespond(route, svc, load, voice_result, rb) ==
    LET insurance == IF "insurance" \in DOMAIN voice_result.structured_data
                     THEN voice_result.structured_data.insurance ELSE <<>>
        recs      == GetLlmRecommendations(svc, rb)
    IN  IF load.kind # "ok" THEN Failure(route, voice_result.raw_text)
        ELSE LET matching == SelectSeq(load.value[1],
                                 LAMBDA p : "specialty" \in DOMAIN p
                                            /\ p.specialty \in Range(recs))
                 ranked   == RankProviders(matching, recs, voice_result.location,
                                           insurance).value[1]
             IN  [route |-> route, kind |-> "success", text |-> voice_result.raw_text,
                  specialty_recommendations |-> recs,
                  providers |-> Take(ranked, 3),
                  total_providers_found |-> Len(ranked),
                  capability |-> <<>>]

\* LLMClient.get_specialties of backend-fastapi/services/llm_client.py: the
\* non-empty stripped fields of the response, or the fixed list when the
\* client is missing, invoke raises or no field is left.
FastapiGetSpecialties(rb) ==
    LET fields == SplitComma(Strip(rb.raw))
        names  == SelectSeq([i \in 1..Len(fields) |-> NameOf(Strip(fields[i]))],
                            LAMBDA n : n # "")
    IN  IF rb.kind # "returns" \/ names = <<>>
        THEN <<"Orthopedics", "Sports Medicine", "Physical Therapy">>
        ELSE names

\* routes/match_providers.match_providers: ProviderMatchResponse(name: str,
\* specialty: str, availability: str) rejects None.
MatchProviders(load, rb, zip_code, insurance) ==
    IF load.kind # "ok" THEN Failure("match_providers", <<>>)
    ELSE LET specialties == FastapiGetSpecialties(rb)
             ranked == RankProviders(load.value[1], specialties, zip_code, insurance).value[1]
         IN  IF \E j \in 1..Len(ranked) : None \in {ranked[j].name, ranked[j].specialty,
                                                   ranked[j].availability}
             THEN Failure("match_providers", <<>>)
             ELSE [route |-> "match_providers", kind |-> "success", text |-> <<>>,
                   specialty_recommendations |-> specialties,
                   providers |-> ranked,
                   total_providers_found |-> Len(ranked),
                   capability |-> <<>>]

\* POST /api/voice/process-text
process_text_input ==
    /\ \E t \in {TextPlain, TextEmpty},
          eb \in PipeLlmBehaviours, rb \in PipeRecLlmBehaviours :
          /\ CallGetProviders
          /\ pipeResult' = [MatchAndRespond("process_text", service[1], loadResult',
                                            ExtractStructuredInfo(t, eb), rb)
                             EXCEPT !.capability = <<eb.kind, rb.kind>>]
    /\ UNCHANGED <<voiceVars, extractVars, recVars, rankResult, threads, produced>>

\* POST /api/voice/upload-audio: an upload that is no audio file and a failed
\* transcription both end in the except branch, before get_providers().
upload_and_process_audio ==
    /\ \E content_type \in {"audio/wav", "text/plain"},
          req \in {r \in AudioRequests : r.preprocess = "ok" /\ r.azure = "raises"
                                         /\ r.azureText = TextPlain \o <<" ">>
                                         /\ r.whisperText = TextMany
                                         /\ r.llm.kind = "init_raises"},
          rb \in PipeRecLlmBehaviours :
          IF content_type # "audio/wav"
          THEN /\ pipeResult' = Failure("upload_audio", <<>>)
               /\ UNCHANGED <<catalogVars, audioResult>>
          ELSE LET voice_result == ProcessAudioFile(voice[1], req)
               IN  /\ audioResult' = Some([req |-> req, out |-> voice_result])
                   /\ IF voice_result.kind # "ok"
                      THEN /\ pipeResult' = Failure("upload_audio", <<>>)
                           /\ UNCHANGED catalogVars
                      ELSE /\ CallGetProviders
                           /\ pipeResult' =
                                 [MatchAndRespond("upload_audio", service[1], loadResult',
                                                  voice_result.extracted[1], rb)
                                  EXCEPT !.capability = <<req.llm.kind, rb.kind>>]
    /\ UNCHANGED <<voice, extractVars, recVars, rankResult, threads, produced>>

\* POST /api/match-providers of routes/match_providers.py
match_providers ==
    /\ \E rb \in PipeRecLlmBehaviours :
          /\ CallGetProviders
          /\ pipeResult' = [MatchProviders(loadResult', rb, Zip10001, <<"Aetna">>)
                             EXCEPT !.capability = <<"none", rb.kind>>]
    /\ UNCHANGED <<voiceVars, extractVars, recVars, rankResult, threads, produced>>

\* providers.json is rewritten at the location get_providers tries first.
RewriteCatalog ==
    /\ ChangeSource
    /\ \A p \in Paths : p # possible_paths[1] => source'[p] = source[p]

\* The state once routes/voice.py is imported: voice_service and the
\* long-lived specialty_service exist, and the constructor of the latter has
\* loaded the catalog.
InitPipeline ==
    /\ \E c \in Catalogs :
          /\ source = [p \in Paths |-> IF p = possible_paths[1] THEN JsonFile(c) ELSE Absent]
          /\ _provider_cache = Some(c)
          /\ loadResult = Ok("get_providers", c)
          /\ firstLoaded = Some(c)
          /\ service = Some(NewSpecialtyService(c))
    /\ loads = 1
    /\ invalidated = FALSE
    /\ \E env \in VoiceEnvs :
          /\ ~env.USE_AZURE_SPEECH /\ env.AZURE_SPEECH_KEY /\ env.AZURE_SPEECH_REGION
          /\ env.speech_config = "ok"
          /\ voice = Some(NewVoiceService(env))
    /\ audioResult = None
    /\ ExtractIdle
    /\ recResult = [llm |-> NoRecLlm, out |-> None]
    /\ LaterIdle

PipelineNext ==
    \/ process_text_input \/ upload_and_process_audio \/ match_providers
    \/ RewriteCatalog \/ clear_cache

SpecPipeline == InitPipeline /\ [][PipelineNext]_vars

\* C17: a pipeline request with well-formed inputs and a non-empty catalog
\* never ends as a successful response with an empty match list.
C17_NoEmptySuccess ==
    (/\ pipeResult.kind = "success"
     /\ pipeResult.route = "process_text" => pipeResult.text # <<>>)
    => pipeResult.providers # <<>>

\* C18: with the catalog loadable, processText succeeds for every input text
\* whatever the capability does at its extraction and recommendation calls.
C18_ProcessTextSucceeds ==
    pipeResult.route = "process_text" => pipeResult.kind = "success"

\* A text request answered with matches although the capability raised at
\* both of its calls.
C18_Witness ==
    /\ pipeResult.route = "process_text"
    /\ pipeResult.capability = <<"init_raises", "init_raises">>
    /\ pipeResult.text = TextPlain
    /\ pipeResult.kind = "success"
    /\ pipeResult.providers # <<>>

\* C19: every name in a recommendation is a member of the catalog's specialty
\* set at the time of the call: the first request after an invalidate call
\* (which is the one to reload the catalog), made while the source is
\* readable, recommends only specialties of the catalog the source holds.
C19_RecommendationsFromReloadedCatalog ==
    [][(/\ invalidated /\ loads = 0 /\ loads' = 1
        /\ Readable(source)
        /\ pipeResult'.route \in {"process_text", "upload_audio"}
        /\ pipeResult'.kind = "success")
       => Range(pipeResult'.specialty_recommendations)
             \subseteq ExtractUniqueSpecialties(ReadSource(source)[1].value[1])]_vars

(***************************************************************************)
(* Concurrent calls of get_providers (services/provider_loader.py)         *)
(*                                                                         *)
(* GET /api/insurances is a plain def route, which FastAPI runs on a       *)
(* thread pool, so calls of get_providers() interleave at every access to  *)
(* the module global and to the file system. A thread is a record: pc is   *)
(* the line it is about to execute, path the index of the location it      *)
(* found, loaded the list its json.load returned, result what its call     *)
(* returned or raised.                                                     *)
(***************************************************************************)

MaxThreads == 2

\* Lines 8-10: the call and its test of the cache.
CheckCache ==
    /\ \E t \in DOMAIN threads :
          /\ threads[t].pc = "idle"
          /\ threads' = [threads EXCEPT ![t].pc =
                            IF _provider_cache # None THEN "line11" ELSE "line19"]
    /\ UNCHANGED <<catalogVars, voiceVars, extractVars, recVars,
                   rankResult, pipeResult, produced>>

\* Line 11: return _provider_cache reads the global a second time.
ReturnCached ==
    /\ \E t \in DOMAIN threads :
          /\ threads[t].pc = "line11"
          /\ threads' = [threads EXCEPT
                            ![t].pc = "done",
                            ![t].result = Ok("get_providers", _provider_cache[1])]
    /\ UNCHANGED <<catalogVars, voiceVars, extractVars, recVars,
                   rankResult, pipeResult, produced>>

\* Lines 12-19 and 23: the first location that exists, or HTTPException.
FindPath ==
    /\ \E t \in DOMAIN threads :
          /\ threads[t].pc = "line19"
          /\ threads' = [threads EXCEPT ![t] =
                IF Existing(possible_paths, source) = {}
                THEN [@ EXCEPT !.pc = "done",
                               !.result = Raised("get_providers", "HTTPException")]
                ELSE [@ EXCEPT !.pc = "line20",
                               !.path = FirstExisting(possible_paths, source)]]
    /\ UNCHANGED <<catalogVars, voiceVars, extractVars, recVars,
                   rankResult, pipeResult, produced>>

\* Lines 20-21, right-hand side: open the file found and json.load it. The
\* file may have been removed or rewritten since line 19. json.load reads
\* the whole file and builds a new list that only this thread holds.
LoadJson ==
    /\ \E t \in DOMAIN threads :
          /\ threads[t].pc = "line20"
          /\ LET f == source[possible_paths[threads[t].path]]
             IN  IF f.kind = "json"
                 THEN /\ threads' = [threads EXCEPT ![t].pc = "line21",
                                                    ![t].loaded = Some(f.data)]
                      /\ produced' = produced \cup {f.data}
                 ELSE /\ threads' = [threads EXCEPT
                            ![t].pc = "done",
                            ![t].result = Raised("get_providers",
                                              IF f.kind = "absent" THEN "FileNotFoundError"
                                                                   ELSE "JSONDecodeError")]
                      /\ UNCHANGED produced
    /\ UNCHANGED <<catalogVars, voiceVars, extractVars, recVars, rankResult, pipeResult>>

\* Mutant: a load that extends the list the global already holds.
PublishAppended(cache, loaded) ==
    IF cache = None THEN Some(loaded) ELSE Some(cache[1] \o loaded)

\* Line 21, the assignment: the global is bound to the list just built.
Publish(cache, loaded) == Some(loaded)

AssignCache ==
    /\ \E t \in DOMAIN threads :
          /\ threads[t].pc = "line21"
          /\ _provider_cache' = Publish(_provider_cache, threads[t].loaded[1])
          /\ threads' = [threads EXCEPT ![t].pc = "line22"]
    /\ UNCHANGED <<source, loadResult, firstLoaded, loads, invalidated>>
    /\ UNCHANGED <<voiceVars, extractVars, recVars, rankResult, pipeResult, produced>>

\* Line 22: return _provider_cache reads the global again, which another
\* thread may have rebound since line 21.
ReturnLoaded ==
    /\ \E t \in DOMAIN threads :
          /\ threads[t].pc = "line22"
          /\ threads' = [threads EXCEPT
                            ![t].pc = "done",
                            ![t].result = Ok("get_providers", _provider_cache[1])]
    /\ UNCHANGED <<catalogVars, voiceVars, extractVars, recVars,
                   rankResult, pipeResult, produced>>

\* provider_loader has just been imported, providers.json is in place and
\* MaxThreads requests are about to call get_providers().
InitConcurrent ==
    /\ \E c \in Catalogs :
          source = [p \in Paths |-> IF p = possible_paths[1] THEN JsonFile(c) ELSE Absent]
    /\ _provider_cache = None
    /\ loadResult = NoResult
    /\ firstLoaded = None
    /\ loads = 0
    /\ invalidated = FALSE
    /\ VoiceIdle /\ ExtractIdle /\ RecIdle
    /\ rankResult = [providers |-> <<>>, specialties |-> <<>>, target_zip |-> <<>>,
                     target_insurance |-> <<>>, impl |-> "none", out |-> NoResult]
    /\ pipeResult = [route |-> "none", kind |-> "none", text |-> <<>>,
                     specialty_recommendations |-> <<>>, providers |-> <<>>,
                     total_providers_found |-> 0, capability |-> <<>>]
    /\ threads = [t \in 1..MaxThreads |->
                     [pc |-> "idle", path |-> 0, loaded |-> None, result |-> NoResult]]
    /\ produced = {}

ConcurrentNext ==
    \/ CheckCache \/ ReturnCached \/ FindPath \/ LoadJson \/ AssignCache \/ ReturnLoaded
    \/ RewriteCatalog \/ clear_cache

SpecConcurrent == InitConcurrent /\ [][ConcurrentNext]_vars

\* C20: with readers calling get_providers() concurrently with invalidate
\* calls and with loads of a rewritten source, every list a reader obtains
\* is a list that one single json.load of the source returned, whole: never
\* a mix of the records of two loads and never a part of a list.
C20_NoTornRead ==
    \A t \in DOMAIN threads :
        threads[t].result.kind = "ok" => threads[t].result.value[1] \in produced

\* After an invalidate call, a reader that loaded one snapshot itself has
\* obtained the other snapshot, which a concurrent load of the rewritten
\* source swapped in.
C20_Witness ==
    /\ invalidated
    /\ \E t, u \in DOMAIN threads :
          /\ threads[t].result.kind = "ok"
          /\ threads[t].loaded # None
          /\ threads[u].loaded # None
          /\ threads[t].loaded # threads[u].loaded
          /\ threads[t].result.value = threads[u].loaded

(***************************************************************************)
(* The stages seen from the request pipeline                               *)
(***************************************************************************)

\* C21: in every entry point the specialty list handed to rank_providers
\* holds only specialties of the catalog the request works on, also when
\* the capability is unavailable and the fixed fallback names are used.
C21_RankedSpecialtiesInCatalog ==
    (pipeResult.kind = "success" /\ _provider_cache # None) =>
        Range(pipeResult.specialty_recommendations)
            \subseteq ExtractUniqueSpecialties(_provider_cache[1])

(***************************************************************************)
(* Structured extraction, continued                                        *)
(***************************************************************************)

\* The first balanced object of a response: from the first opening brace to
\* the first closing brace at which as many braces are closed as were opened.
FirstBalancedObject(resp) ==
    LET opens == {i \in 1..Len(resp) : resp[i] = OpenTok}
        first == CHOOSE i \in opens : \A j \in opens : i <= j
        Balance(j) == Cardinality({k \in first..j : resp[k] = OpenTok})
                      - Cardinality({k \in first..j : resp[k] = CloseTok})
        ends  == {j \in first..Len(resp) : Balance(j) = 0}
    IN  IF opens = {} THEN None
        ELSE IF ends = {} THEN None
        ELSE Some(SubSeq(resp, first, CHOOSE j \in ends : \A k \in ends : j <= k))

\* C22: when the first balanced object of the capability's response is
\* well-formed JSON, whatever prose, braces or further objects come before
\* and after it, the extraction returns the fields of that object and does
\* not fall back.
C22_FirstBalancedObjectParsed ==
    (/\ extractResult.out # None
     /\ extractResult.llm.kind = "returns"
     /\ FirstBalancedObject(extractResult.llm.resp) # None
     /\ JsonValid(FirstBalancedObject(extractResult.llm.resp)[1]))
    => LET obj == FirstBalancedObject(extractResult.llm.resp)[1]
       IN  extractResult.out[1].structured_data =
              [injury_description |->
                   Lookup(obj, "injury_description", <<"No specific symptoms mentioned">>),
               zip_code  |-> Lookup(obj, "zip_code", <<>>),
               insurance |-> Lookup(obj, "insurance", <<>>),
               recommended_specialties |-> Lookup(obj, "recommended_specialties", <<>>)]

\* The fallback extractor made the record returned.
FellBack ==
    /\ extractResult.out # None
    /\ Degraded(extractResult.llm)

\* C23 (as claimed): the fallback's zip_code is the first five consecutive
\* digits of the raw text, and the empty string only when the text has no
\* five consecutive digits.
C23_FirstFiveDigitSubstring ==
    FellBack =>
        LET t  == extractResult.text
            z  == extractResult.out[1].structured_data.zip_code
            Five(i) == i + 4 <= Len(t) /\ \A k \in 0..4 : t[i + k] \in Digits
        IN  /\ z = <<>> <=> ~ \E i \in 1..Len(t) : Five(i)
            /\ \A i \in 1..Len(t) :
                  (Five(i) /\ \A j \in 1..(i - 1) : ~Five(j)) => z = SubSeq(t, i, i + 4)

\* C23 (amended): the fallback's zip_code is the first run of exactly five
\* digits that has no letter or digit right before or right after it, and
\* the empty string exactly when the text has no such run.
C23_FirstDelimitedFiveDigits ==
    FellBack =>
        LET t  == extractResult.text
            z  == extractResult.out[1].structured_data.zip_code
            Run(i) == /\ i + 4 <= Len(t)
                      /\ \A k \in 0..4 : t[i + k] \in Digits
                      /\ i > 1 => t[i - 1] \in NonWord
                      /\ i + 4 < Len(t) => t[i + 5] \in NonWord
        IN  /\ z = <<>> <=> ~ \E i \in 1..Len(t) : Run(i)
            /\ \A i \in 1..Len(t) :
                  (Run(i) /\ \A j \in 1..(i - 1) : ~Run(j)) => z = SubSeq(t, i, i + 4)

\* C23 witness: the capability call raised and, of the two zip codes in the
\* text, the fallback took the first.
C23_Witness ==
    /\ FellBack
    /\ extractResult.llm.kind = "invoke_raises"
    /\ extractResult.text = TextTwoZips
    /\ extractResult.out[1].structured_data.zip_code = <<"9", "0", "2", "1", "0">>

\* The positions in specialty_keywords of the specialties that have a
\* keyword occurring in the lower-cased text.
LexiconHits(t) ==
    {i \in 1..Len(specialty_keywords) :
        \E kw \in specialty_keywords[i].keywords : Occurs(kw, Lower(t))}

\* C24 (as claimed): the fallback's recommended_specialties contains every
\* specialty of the lexicon with a keyword occurring in the text, and it is
\* [General Surgery, Primary Care] if and only if no keyword occurs.
C24_EveryMatchedSpecialty ==
    FellBack =>
        LET rs == extractResult.out[1].structured_data.recommended_specialties
            hits == LexiconHits(extractResult.text)
        IN  /\ \A i \in hits : specialty_keywords[i].name \in Range(rs)
            /\ rs = <<"General Surgery", "Primary Care">> <=> hits = {}

\* C24 (amended): the fallback's recommended_specialties is the first three,
\* in the lexicon's order, of the specialties with a keyword occurring in
\* the text (all of them when there are at most three), and it is
\* [General Surgery, Primary Care] if and only if no keyword occurs.
C24_FirstThreeMatchedSpecialties ==
    FellBack =>
        LET rs == extractResult.out[1].structured_data.recommended_specialties
            hits == LexiconHits(extractResult.text)
            \* the n-th hit in the lexicon's order
            nth(n) == CHOOSE i \in hits : Cardinality({j \in hits : j <= i}) = n
        IN  /\ rs = <<"General Surgery", "Primary Care">> <=> hits = {}
            /\ hits # {} =>
                  /\ Len(rs) = IF Cardinality(hits) < 3 THEN Cardinality(hits) ELSE 3
                  /\ \A n \in 1..Len(rs) : rs[n] = specialty_keywords[nth(n)].name

\* C24 witness: the text has keywords of six specialties and the fallback
\* returned the first three of them, Orthopedics ('knee') not among them.
C24_Witness ==
    /\ FellBack
    /\ extractResult.text = TextMany
    /\ Cardinality(LexiconHits(TextMany)) = 6
    /\ extractResult.out[1].structured_data.recommended_specialties
          = <<"Dentist", "Cardiology", "Neurology">>

\* C25: every record _extract_structured_info returns, made from the
\* capability's response or by the fallback, has at most 3 entries in
\* recommended_specialties.
C25_AtMostThreeSpecialties ==
    (/\ extractResult.out # None
     /\ "recommended_specialties" \in DOMAIN extractResult.out[1].structured_data)
    => Len(extractResult.out[1].structured_data.recommended_specialties) <= 3

(***************************************************************************)
(* Provider ranking, continued                                             *)
(***************************************************************************)

\* C26: the distance each returned match carries is the distance the
\* ranking call computed from the target zip code and the provider's zip
\* code, the one its score was made with, never the distance field of the
\* provider record.
C26_MatchCarriesComputedDistance ==
    Ranked =>
    \A j \in 1..Len(Matches) :
        LET p   == ProviderOf(Matches[j])
            zip == IF "zip_code" \in DOMAIN p THEN p.zip_code ELSE <<>>
        IN  Matches[j].distance =
               IF rankResult.impl = "main"
               THEN MainCalculateDistance(rankResult.target_zip, zip)
               ELSE CalculateDistance(rankResult.target_zip, zip)

\* The provider's specialty is among the recommended ones.
SpecialtyMatches(p) ==
    "specialty" \in DOMAIN p /\ p.specialty \in Range(rankResult.specialties)

\* C27: every provider whose specialty is among the recommended ones is
\* ordered strictly ahead of every provider whose specialty is not, whatever
\* their insurance match and distance: among the matches returned, and a
\* ranked provider that was left out is no specialty match unless all the
\* matches are. The lowest score a specialty match can have (no insurance
\* match, 99.999 miles) exceeds the highest score, 0.65, of a non-match
\* (insurance match, 0 miles).
C27_SpecialtyMatchesFirst ==
    Ranked =>
        LET kept   == {Matches[j].idx : j \in 1..Len(Matches)}
            ranked == {i \in 1..Len(rankResult.providers) :
                          rankResult.impl = "main" =>
                              {"specialty", "zip_code", "insurances"}
                                  \subseteq DOMAIN rankResult.providers[i]}
        IN  /\ \A j, k \in 1..Len(Matches) :
                  (SpecialtyMatches(ProviderOf(Matches[j]))
                   /\ ~SpecialtyMatches(ProviderOf(Matches[k]))) => j < k
            /\ \A i \in ranked \ kept :
                  SpecialtyMatches(rankResult.providers[i])
                  => \A j \in 1..Len(Matches) : SpecialtyMatches(ProviderOf(Matches[j]))
            /\ 100 * Score(3, 10, 0).num = 65 * Score(3, 10, 0).den
            /\ ScoreLess([score |-> Score(3, 10, 0)], [score |-> Score(10, 5, 99999)])

\* C27 witness: a specialty match with no insurance match, 10 miles away,
\* came ahead of a provider of another specialty that takes the target
\* insurance and is nearby.
C27_Witness ==
    /\ Ranked
    /\ rankResult.impl = "provider_ranker"
    /\ \E j, k \in 1..Len(Matches) :
          /\ j < k
          /\ Matches[j].ranking_reason = <<"Specialty match">>
          /\ Matches[j].distance = 10000
          /\ Matches[k].ranking_reason = <<"Insurance match", ", ", "Nearby provider">>

(***************************************************************************)
(* Request pipeline, continued                                             *)
(***************************************************************************)

\* C28: in process_text_input and upload_and_process_audio only providers
\* whose specialty is in the recommendation reach rank_providers: every
\* returned match has its specialty in specialty_recommendations, its
\* ranking_reason begins with 'Specialty match', and 'General match' is
\* never returned.
C28_VoiceMatchesAreSpecialtyMatches ==
    (pipeResult.route \in {"process_text", "upload_audio"} /\ pipeResult.kind = "success")
    => \A j \in 1..Len(pipeResult.providers) :
          LET match == pipeResult.providers[j]
          IN  /\ match.specialty # None
              /\ match.specialty[1] \in Range(pipeResult.specialty_recommendations)
              /\ match.ranking_reason[1] = "Specialty match"
              /\ match.ranking_reason # <<"General match">>

\* C28 witness: an audio request over a catalog of two specialties was
\* answered with the one provider of a recommended specialty.
C28_Witness ==
    /\ pipeResult.route = "upload_audio"
    /\ pipeResult.kind = "success"
    /\ _provider_cache # None
    /\ Len(_provider_cache[1]) = 2
    /\ Len(pipeResult.providers) = 1
    /\ pipeResult.providers[1].ranking_reason[1] = "Specialty match"

(***************************************************************************)
(* Provider catalog, continued                                             *)
(***************************************************************************)

\* C29: a get_providers() that fails, for want of a file or because the
\* file is not JSON, leaves the cache unpopulated, and the get_providers()
\* made after a failed one, once the source can be read, succeeds and
\* returns the providers of the file the source then holds.
C29_FailedLoadIsNotCached ==
    [][/\ (get_providers /\ loadResult'.kind # "ok") => _provider_cache' = None
       /\ (/\ loadResult.op = "get_providers" /\ loadResult.kind # "ok"
           /\ get_providers
           /\ Readable(source))
          => /\ loadResult'.kind = "ok"
             /\ loadResult'.value[1] =
                   source[possible_paths[FirstExisting(possible_paths, source)]].data
             /\ _provider_cache' = loadResult'.value]_vars

\* C29 witness: a get_providers() has failed on a file that is not JSON, the
\* cache is unpopulated, and the source has since become a well-formed
\* catalog, which the next get_providers() will read.
C29_Witness ==
    /\ loadResult = Raised("get_providers", "JSONDecodeError")
    /\ _provider_cache = None
    /\ Readable(source)
    /\ ReadSource(source)[1].value[1] = CatalogA

\* C30: every temporary file made while an upload-audio request is handled
\* is gone when the request ends, on every path. The saved upload is removed
\* by the handler's finally clause; the formula is about the other file, the
\* normalized copy _preprocess_audio makes: no request handled has left it
\* on disk.
C30_NoTemporaryFileLeft ==
    (pipeResult.route = "upload_audio" /\ audioResult # None)
    => ~audioResult[1].out.leftover

====
